---- MODULE Spec2Model ----
(***************************************************************************)
(* Model of the bounty actor of src/src/lib.rs.                           *)
(*                                                                         *)
(* One action per externally invokable method of invoke(): constructor,    *)
(* post_bounty, list_bounties, lookup_bounty, award_bounty, and the        *)
(* unrecognized-method arm.  A call runs to completion; when it aborts     *)
(* (abort! or a panic from unwrap) the host discards every effect of the   *)
(* call, so an aborted call changes nothing but the record of the call.    *)
(*                                                                         *)
(* A Cid is the hash of a block.  The hash is taken to be collision free: *)
(* a Cid is modelled as the record [hash |-> block].  The block store is   *)
(* the set of blocks that were put.                                        *)
(***************************************************************************)
EXTENDS Integers, Sequences, FiniteSets, TLC

VARIABLES
    root,        \* the host's current state root: None or Some(Cid)
    blocks,      \* the host's block store: the set of blocks put so far
    last,        \* the last call: method, caller, params, exit code, return, effects
    ncalls,      \* number of calls made
    deposited,   \* per key bytes: value received by successful post_bounty calls
    paid,        \* per key bytes: value moved out by sends that succeeded
    fresh,       \* per key bytes: value received since the last successful
                 \* award of the key or the last successful constructor
    drained      \* per key bytes: a successful award removed the key and no
                 \* post_bounty to the key succeeded since

vars == <<root, blocks, last, ncalls, deposited, paid, fresh, drained>>

----------------------------------------------------------------------------
(* Bounds *)

MaxCalls == 4
MaxValue == 2

(* Program constants *)

INIT_ACTOR_ADDR == 1
METHOD_SEND == 0

----------------------------------------------------------------------------
(* Option<T> *)

None == <<>>
Some(x) == <<x>>
IsSome(o) == Len(o) = 1
Unwrap(o) == o[1]

----------------------------------------------------------------------------
(* Addresses.  An Address is a protocol and a payload; protocol 0 is an    *)
(* ID address, whose payload is an ActorID.  Its byte form is the protocol *)
(* byte followed by the payload.                                           *)

ID_PROTOCOL == 0
SECP_PROTOCOL == 1
Protocols == {ID_PROTOCOL, SECP_PROTOCOL}

NewId(id) == [protocol |-> ID_PROTOCOL, payload |-> id]

AddressToBytes(a) == <<a.protocol, a.payload>>

AddressFromBytes(b) ==
    IF Len(b) = 2 /\ b[1] \in Protocols
    THEN Some([protocol |-> b[1], payload |-> b[2]])
    ELSE None

----------------------------------------------------------------------------
(* Inputs of the calls *)

Callers == {INIT_ACTOR_ADDR, 2, 3}

\* recorded as the caller by the methods that never read it
NotRead == 0
Pieces == {1, 2}
Values == 0..MaxValue

Malformed == <<>>

\* parameter blobs of method 1: an address in byte form
ConstructorBlobs == {<<ID_PROTOCOL, 2>>, <<SECP_PROTOCOL, 2>>, Malformed}

\* the depositor addresses and the payout addresses the calls name
DepositorAddrs == {NewId(2)}
PayoutAddrs == {NewId(3), [protocol |-> SECP_PROTOCOL, payload |-> 3]}

\* parameter blobs of methods 2 and 4: the tuple (piece_cid, address)
PostBlobs ==
    {<<p>> \o AddressToBytes(a) : p \in Pieces, a \in DepositorAddrs} \cup {Malformed}

\* parameter blobs of method 5: the tuple (piece_cid, address, payout_address)
AwardBlobs ==
    {<<p>> \o AddressToBytes(a) \o AddressToBytes(q) :
        p \in Pieces, a \in DepositorAddrs, q \in PayoutAddrs} \cup {Malformed}

\* a method number invoke does not dispatch
OtherMethods == {6}

\* what the host answers to a send
SendOutcomes == {"ok", "receipt_failed", "syscall_error"}

----------------------------------------------------------------------------
(* Parameter decoding *)

DeserializePostBountyParams(b) ==
    IF Len(b) = 3 /\ b[2] \in Protocols
    THEN Some([piece_cid |-> b[1],
               address |-> [protocol |-> b[2], payload |-> b[3]]])
    ELSE None

DeserializeAwardBountyParamsSwapped(b) ==
    IF Len(b) = 5 /\ b[2] \in Protocols /\ b[4] \in Protocols
    THEN Some([piece_cid |-> b[1],
               address |-> [protocol |-> b[4], payload |-> b[5]],
               payout_address |-> [protocol |-> b[2], payload |-> b[3]]])
    ELSE None

DeserializeAwardBountyParams(b) ==
    IF Len(b) = 5 /\ b[2] \in Protocols /\ b[4] \in Protocols
    THEN Some([piece_cid |-> b[1],
               address |-> [protocol |-> b[2], payload |-> b[3]],
               payout_address |-> [protocol |-> b[4], payload |-> b[5]]])
    ELSE None

(* BountyKey and its canonical bytes, the key of the HAMT *)

BountyKey(piece_cid, address) == [piece_cid |-> piece_cid, address |-> address]

SerializeKey(key) == <<key.piece_cid>> \o AddressToBytes(key.address)

DeserializeKey(bytes) ==
    BountyKey(bytes[1], Unwrap(AddressFromBytes(SubSeq(bytes, 2, 3))))

AllKeys == {SerializeKey(BountyKey(p, a)) : p \in Pieces, a \in DepositorAddrs}

----------------------------------------------------------------------------
(* Blocks and Cids *)

CidOf(block) == [hash |-> block]

BlockGetIn(blks, cid) == IF cid.hash \in blks THEN Some(cid.hash) ELSE None

BlockGet(cid) == BlockGetIn(blocks, cid)

\* Cid::default(), the Cid of no block
CidDefault == CidOf([default |-> TRUE])

(* The HAMT: a map from key bytes to BountyValue; its root block holds the *)
(* entries, so that its Cid is a function of the entries alone.            *)

HamtNew == [k \in {} |-> [amount |-> 0]]

HamtBlock(m) == [entries |-> m]

HamtFlush(m) == CidOf(HamtBlock(m))

IsHamtBlock(b) == DOMAIN b = {"entries"}

HamtLoad(cid) ==
    IF IsSome(BlockGet(cid)) /\ IsHamtBlock(cid.hash)
    THEN Some(cid.hash.entries)
    ELSE None

HamtGet(m, k) == IF k \in DOMAIN m THEN Some(m[k]) ELSE None

HamtSetOnly(m, k, v) == [x \in {k} |-> v]

HamtSet(m, k, v) == [x \in DOMAIN m \cup {k} |-> IF x = k THEN v ELSE m[x]]

HamtDeleteKeep(m, k) == m

HamtDeleteTombstone(m, k) == HamtSet(m, k, [amount |-> 0])

HamtDelete(m, k) == [x \in DOMAIN m \ {k} |-> m[x]]

\* the order of for_each: by the hash of the key, not by insertion
KeyHash(k) == (k[1] * 7 + k[2] * 3 + k[3] * 5) % 11

RECURSIVE HamtForEach(_)
HamtForEach(m) ==
    IF DOMAIN m = {} THEN <<>>
    ELSE LET k == CHOOSE x \in DOMAIN m :
                    \A y \in DOMAIN m : <<KeyHash(x), x[1]>> = <<KeyHash(y), y[1]>>
                        \/ KeyHash(x) < KeyHash(y)
                        \/ (KeyHash(x) = KeyHash(y) /\ x[1] < y[1])
         IN <<<<k, m[k]>>>> \o HamtForEach([x \in DOMAIN m \ {k} |-> m[x]])

----------------------------------------------------------------------------
(* State, State::load and State::save *)

StateBlockDefaultMap(state) ==
    [trusted_address |-> AddressToBytes(state.trusted_address),
     bounties_map |-> CidDefault]

StateBlock(state) ==
    [trusted_address |-> AddressToBytes(state.trusted_address),
     bounties_map |-> state.bounties_map]

IsStateBlock(b) == DOMAIN b = {"trusted_address", "bounties_map"}

DecodeState(b) ==
    [trusted_address |-> Unwrap(AddressFromBytes(b.trusted_address)),
     bounties_map |-> b.bounties_map]

\* a load that takes a missing root for a state of its own making
LoadFromLenient(r, blks) ==
    IF r = None
    THEN Some([trusted_address |-> NewId(INIT_ACTOR_ADDR), bounties_map |-> CidDefault])
    ELSE IF BlockGetIn(blks, Unwrap(r)) = None THEN None
    ELSE IF ~IsStateBlock(Unwrap(r).hash) THEN None
    ELSE Some(DecodeState(Unwrap(r).hash))

\* State::load with the host's root r and block store blks: None stands for
\* the three aborts with USR_ILLEGAL_STATE
LoadFrom(r, blks) ==
    IF r = None THEN None
    ELSE IF BlockGetIn(blks, Unwrap(r)) = None THEN None
    ELSE IF ~IsStateBlock(Unwrap(r).hash) THEN None
    ELSE Some(DecodeState(Unwrap(r).hash))

Load == LoadFrom(root, blocks)

SetRootSkip(cid) == root

SetRoot(cid) == Some(cid)

\* State::save: put the encoded state, then set the root to its Cid
SaveBlocks(state, blks) == blks \cup {StateBlock(state)}
SaveRoot(state) == SetRoot(CidOf(StateBlock(state)))

----------------------------------------------------------------------------
(* What the read methods compute from the published state *)

\* the bounties map of the published state, None when State::load or
\* Hamt::load aborts
LoadBounties ==
    IF Load = None THEN None ELSE HamtLoad(Unwrap(Load).bounties_map)

AmountOfAbsentOne(m, k) == IF IsSome(HamtGet(m, k)) THEN Unwrap(HamtGet(m, k)).amount ELSE 1

AmountOf(m, k) == IF IsSome(HamtGet(m, k)) THEN Unwrap(HamtGet(m, k)).amount ELSE 0

\* the return value of lookup_bounty for key bytes k
Lookup(k) == [amount |-> AmountOf(Unwrap(LoadBounties), k)]

PostedBountyNoAmount(entry) ==
    [piece_cid |-> DeserializeKey(entry[1]).piece_cid,
     address |-> DeserializeKey(entry[1]).address,
     amount |-> 0]

PostedBounty(entry) ==
    [piece_cid |-> DeserializeKey(entry[1]).piece_cid,
     address |-> DeserializeKey(entry[1]).address,
     amount |-> entry[2].amount]

\* the return value of list_bounties
List ==
    LET entries == HamtForEach(Unwrap(LoadBounties))
    IN [i \in 1..Len(entries) |-> PostedBounty(entries[i])]

\* the balance of key bytes k as a later call observes it (0 when there is
\* no loadable state)
Balance(k) == IF LoadBounties = None THEN 0 ELSE Lookup(k).amount

----------------------------------------------------------------------------
(* The checks of the handlers *)

IsInitActorAny(caller) == TRUE

IsInitActor(caller) == caller = INIT_ACTOR_ADDR

IsTrustedAny(state, caller) == TRUE

IsTrusted(state, caller) == state.trusted_address = NewId(caller)

AddReceivedOverwrite(amount, received) == received

AddReceived(amount, received) == amount + received

PostHasAmountAlways(amount) == TRUE

PostHasAmount(amount) == amount > 0

AwardHasAmountAlways(amount) == TRUE

AwardHasAmount(amount) == amount > 0

\* the effects of the writing path of each handler, in the order of its
\* statements
ConstructorEvents == <<"hamt_flush", "state_put", "set_root">>

PostEvents == <<"hamt_set", "hamt_flush", "state_put", "set_root">>

AwardEventsSendLast == <<"hamt_delete", "hamt_flush", "state_put", "set_root", "send">>

AwardEvents == <<"send", "hamt_delete", "hamt_flush", "state_put", "set_root">>

----------------------------------------------------------------------------
(* The record of a call *)

Call(method, caller, params, exit, ret, events, sends) ==
    [method |-> method, caller |-> caller, params |-> params, exit |-> exit,
     ret |-> ret, events |-> events, sends |-> sends]

\* an aborted call: the host discards its effects
Abort(method, caller, params, exit, events, sends) ==
    /\ last' = Call(method, caller, params, exit, None, events, sends)
    /\ ncalls' = ncalls + 1
    /\ UNCHANGED <<root, blocks, deposited, paid, fresh, drained>>

\* a call that returns without writing
ReturnOnly(method, caller, params, ret) ==
    /\ last' = Call(method, caller, params, "OK", ret, <<>>, <<>>)
    /\ ncalls' = ncalls + 1
    /\ UNCHANGED <<root, blocks, deposited, paid, fresh, drained>>

Init ==
    /\ root = None
    /\ blocks = {}
    /\ last = Call(0, 0, Malformed, "OK", None, <<>>, <<>>)
    /\ ncalls = 0
    /\ deposited = [k \in AllKeys |-> 0]
    /\ paid = [k \in AllKeys |-> 0]
    /\ fresh = [k \in AllKeys |-> 0]
    /\ drained = [k \in AllKeys |-> FALSE]

----------------------------------------------------------------------------
(* Method 1 *)

constructor(caller, params) ==
    /\ ncalls < MaxCalls
    /\ LET trusted_address == AddressFromBytes(params)
           bounties == HamtNew
           bounties_cid == HamtFlush(bounties)
       IN IF trusted_address = None
          THEN Abort(1, caller, params, "PANIC", <<>>, <<>>)
          ELSE IF ~IsInitActor(caller)
          THEN Abort(1, caller, params, "USR_FORBIDDEN", <<>>, <<>>)
          ELSE LET state == [trusted_address |-> Unwrap(trusted_address),
                             bounties_map |-> bounties_cid]
               IN /\ blocks' = SaveBlocks(state, blocks \cup {HamtBlock(bounties)})
                  /\ root' = SaveRoot(state)
                  /\ last' = Call(1, caller, params, "OK", None, ConstructorEvents, <<>>)
                  /\ ncalls' = ncalls + 1
                  /\ fresh' = [k \in AllKeys |-> 0]
                  /\ UNCHANGED <<deposited, paid, drained>>

(* Method 2 *)

post_bounty(params, value_received) ==
    /\ ncalls < MaxCalls
    /\ LET decoded == DeserializePostBountyParams(params)
       IN IF decoded = None
          THEN Abort(2, NotRead, params, "PANIC", <<>>, <<>>)
          ELSE IF LoadBounties = None
          THEN Abort(2, NotRead, params, "USR_ILLEGAL_STATE", <<>>, <<>>)
          ELSE LET state == Unwrap(Load)
                   bounties == Unwrap(LoadBounties)
                   key == SerializeKey(BountyKey(Unwrap(decoded).piece_cid,
                                                 Unwrap(decoded).address))
                   amount == AddReceived(AmountOf(bounties, key), value_received)
                   set == HamtSet(bounties, key, [amount |-> amount])
                   newstate == [state EXCEPT !.bounties_map = HamtFlush(set)]
               IN IF PostHasAmount(amount)
                  THEN /\ blocks' = SaveBlocks(newstate, blocks \cup {HamtBlock(set)})
                       /\ root' = SaveRoot(newstate)
                       /\ last' = Call(2, NotRead, params, "OK", None, PostEvents, <<>>)
                       /\ ncalls' = ncalls + 1
                       /\ deposited' = [deposited EXCEPT ![key] = @ + value_received]
                       /\ fresh' = [fresh EXCEPT ![key] = @ + value_received]
                       /\ drained' = [drained EXCEPT ![key] = FALSE]
                       /\ UNCHANGED paid
                  ELSE /\ last' = Call(2, NotRead, params, "OK", None, <<>>, <<>>)
                       /\ ncalls' = ncalls + 1
                       /\ deposited' = [deposited EXCEPT ![key] = @ + value_received]
                       /\ fresh' = [fresh EXCEPT ![key] = @ + value_received]
                       /\ drained' = [drained EXCEPT ![key] = FALSE]
                       /\ UNCHANGED <<root, blocks, paid>>

(* Method 3 *)

list_bounties ==
    /\ ncalls < MaxCalls
    /\ IF LoadBounties = None
       THEN Abort(3, NotRead, Malformed, "USR_ILLEGAL_STATE", <<>>, <<>>)
       ELSE ReturnOnly(3, NotRead, Malformed, Some(List))

(* Method 4 *)

lookup_bounty(params) ==
    /\ ncalls < MaxCalls
    /\ LET decoded == DeserializePostBountyParams(params)
       IN IF decoded = None
          THEN Abort(4, NotRead, params, "PANIC", <<>>, <<>>)
          ELSE IF LoadBounties = None
          THEN Abort(4, NotRead, params, "USR_ILLEGAL_STATE", <<>>, <<>>)
          ELSE ReturnOnly(4, NotRead, params,
                          Some(Lookup(SerializeKey(BountyKey(Unwrap(decoded).piece_cid,
                                                             Unwrap(decoded).address)))))

(* Method 5 *)

award_bounty(caller, params, outcome) ==
    /\ ncalls < MaxCalls
    /\ LET decoded == DeserializeAwardBountyParams(params)
       IN IF decoded = None
          THEN Abort(5, caller, params, "PANIC", <<>>, <<>>)
          ELSE IF Load = None
          THEN Abort(5, caller, params, "USR_ILLEGAL_STATE", <<>>, <<>>)
          ELSE IF ~IsTrusted(Unwrap(Load), caller)
          THEN Abort(5, caller, params, "USR_FORBIDDEN", <<>>, <<>>)
          ELSE IF LoadBounties = None
          THEN Abort(5, caller, params, "USR_ILLEGAL_STATE", <<>>, <<>>)
          ELSE LET state == Unwrap(Load)
                   bounties == Unwrap(LoadBounties)
                   key == SerializeKey(BountyKey(Unwrap(decoded).piece_cid,
                                                 Unwrap(decoded).address))
                   amount == AmountOf(bounties, key)
                   send == [to |-> Unwrap(decoded).payout_address,
                            method |-> METHOD_SEND, value |-> amount,
                            outcome |-> outcome]
                   deleted == HamtDelete(bounties, key)
                   newstate == [state EXCEPT !.bounties_map = HamtFlush(deleted)]
               IN IF ~AwardHasAmount(amount)
                  THEN /\ outcome = "ok"
                       /\ ReturnOnly(5, caller, params, None)
                  ELSE IF outcome = "syscall_error"
                  THEN Abort(5, caller, params, "PANIC", <<"send">>, <<send>>)
                  ELSE /\ blocks' = SaveBlocks(newstate, blocks \cup {HamtBlock(deleted)})
                       /\ root' = SaveRoot(newstate)
                       /\ last' = Call(5, caller, params, "OK", None, AwardEvents, <<send>>)
                       /\ ncalls' = ncalls + 1
                       /\ paid' = [paid EXCEPT ![key] =
                                      IF outcome = "ok" THEN @ + amount ELSE @]
                       /\ fresh' = [fresh EXCEPT ![key] = 0]
                       /\ drained' = [drained EXCEPT ![key] = TRUE]
                       /\ UNCHANGED deposited

(* Any other method number *)

unrecognized(method) ==
    /\ ncalls < MaxCalls
    /\ Abort(method, NotRead, Malformed, "USR_UNHANDLED_MESSAGE", <<>>, <<>>)

----------------------------------------------------------------------------

Next ==
    \/ \E caller \in Callers, params \in ConstructorBlobs : constructor(caller, params)
    \/ \E params \in PostBlobs, v \in Values : post_bounty(params, v)
    \/ list_bounties
    \/ \E params \in PostBlobs : lookup_bounty(params)
    \/ \E caller \in Callers, params \in AwardBlobs, outcome \in SendOutcomes :
          award_bounty(caller, params, outcome)
    \/ \E method \in OtherMethods : unrecognized(method)

Spec == Init /\ [][Next]_vars

----------------------------------------------------------------------------
(* The calls the properties speak of, read off the record of the call *)

\* the key bytes and the payout address a well-formed blob names
NamedKey(params) == SubSeq(params, 1, 3)
NamedPayout(params) == [protocol |-> params[4], payload |-> params[5]]

WellFormedAward(params) == Len(params) = 5
WellFormedAddress(params) == Len(params) = 2

Published == Load # None
TrustedAuthority == Unwrap(Load).trusted_address

\* the published state is the one from before the step
SameState ==
    /\ root' = root
    /\ blocks' = blocks
    /\ \A k \in AllKeys : Balance(k)' = Balance(k)

\* the step is an award call by a caller other than the trusted authority
\* of the published record
UntrustedAward ==
    /\ last'.method = 5
    /\ Published
    /\ TrustedAuthority # NewId(last'.caller)

\* C1 as stated: in every reachable state, an award call whose caller is
\* not the trusted authority of the published record aborts with Forbidden,
\* requests no transfer and leaves the root and every lookup unchanged.
C1_AsStated ==
    [][UntrustedAward =>
          /\ last'.exit = "USR_FORBIDDEN"
          /\ last'.sends = <<>>
          /\ SameState]_vars

\* C1 amended: such a call always aborts, requests no transfer and leaves
\* the root and every lookup unchanged; the abort is Forbidden when the
\* parameter blob decodes, and the panic of the decoding otherwise, which
\* precedes the check of the caller.
C1_UntrustedAwardAborts ==
    [][UntrustedAward =>
          /\ last'.exit = IF WellFormedAward(last'.params)
                          THEN "USR_FORBIDDEN" ELSE "PANIC"
          /\ last'.sends = <<>>
          /\ last'.ret = None
          /\ SameState]_vars

\* an untrusted caller was refused the award of a funded key
C1_Witness ==
    /\ last.method = 5
    /\ last.exit = "USR_FORBIDDEN"
    /\ Balance(NamedKey(last.params)) > 0

\* C2: for every key, the value moved out by awards of the key never
\* exceeds the value received by deposits to the key.
C2_PaidAtMostDeposited == \A k \in AllKeys : paid[k] <= deposited[k]

\* an award moved out all that was deposited to a key
C2_Witness ==
    \E k \in AllKeys : paid[k] > 0 /\ paid[k] = deposited[k] /\ drained[k]

\* C3 as stated: when the send of an award fails, as a syscall error or as
\* a receipt with a failing exit code, the call aborts, the entry stays and
\* no root is published.
C3_FailedSendAborts ==
    [][(/\ last'.method = 5
        /\ last'.sends # <<>>
        /\ last'.sends[1].outcome # "ok")
       => /\ last'.exit # "OK"
          /\ SameState]_vars

FundedAward ==
    /\ last'.method = 5
    /\ last'.exit = "OK"
    /\ Balance(NamedKey(last'.params)) > 0

\* C5: a successful award of a key with balance b > 0 requests exactly one
\* transfer, of b, to the payout address of the call, and removes the entry:
\* lookup(key) is 0 and list() has no entry of the key.
C5_AwardPaysAndRemoves ==
    [][\A k \in AllKeys :
          (FundedAward /\ NamedKey(last'.params) = k) =>
             /\ Len(last'.sends) = 1
             /\ last'.sends[1].value = Balance(k)
             /\ last'.sends[1].to = NamedPayout(last'.params)
             /\ last'.sends[1].method = METHOD_SEND
             /\ Published'
             /\ Lookup(k)'.amount = 0
             /\ \A i \in DOMAIN List' :
                   SerializeKey(BountyKey(List'[i].piece_cid, List'[i].address)) # k]_vars

\* an award paid a key out while another key stays funded
C5_Witness ==
    /\ last.method = 5
    /\ last.exit = "OK"
    /\ Len(last.sends) = 1
    /\ last.sends[1].value > 0
    /\ Balance(NamedKey(last.params)) = 0
    /\ \E k \in AllKeys : Balance(k) > 0

\* the step is an authorized award of a key that an award drained, with no
\* deposit to the key since
SecondAward ==
    /\ last'.method = 5
    /\ WellFormedAward(last'.params)
    /\ drained[NamedKey(last'.params)]
    /\ Published
    /\ TrustedAuthority = NewId(last'.caller)

\* C6: the second of two authorized awards of a key, with no deposit to the
\* key in between, requests no transfer, raises no error and publishes no
\* new root.
C6_SecondAwardIsNoOp ==
    [][SecondAward =>
          /\ last'.exit = "OK"
          /\ last'.sends = <<>>
          /\ SameState]_vars

\* the second award returned
C6_Witness ==
    /\ last.method = 5
    /\ last.exit = "OK"
    /\ last.sends = <<>>
    /\ drained[NamedKey(last.params)]
    /\ paid[NamedKey(last.params)] > 0

\* C7: every entry of the published index, and of every index ever
\* flushed, has amount > 0.
C7_NoZeroEntries ==
    /\ LoadBounties # None =>
          \A k \in DOMAIN Unwrap(LoadBounties) : Unwrap(LoadBounties)[k].amount > 0
    /\ \A b \in blocks :
          IsHamtBlock(b) => \A k \in DOMAIN b.entries : b.entries[k].amount > 0

\* a deposit of 0 to an unfunded key returned, beside a funded key
C7_Witness ==
    /\ last.method = 2
    /\ last.exit = "OK"
    /\ LoadBounties # None
    /\ Balance(NamedKey(last.params)) = 0
    /\ DOMAIN Unwrap(LoadBounties) # {}

\* C8 as stated: a funded key becomes unfunded only through a successful
\* award of that key, further constructor calls included.
C8_OnlyAwardUnfunds ==
    [][\A k \in AllKeys :
          (Balance(k) > 0 /\ Balance(k)' = 0)
             => /\ last'.method = 5
                /\ last'.exit = "OK"
                /\ NamedKey(last'.params) = k]_vars

\* the step is a constructor call by a caller other than the init actor
ForeignConstructor ==
    /\ last'.method = 1
    /\ last'.caller # INIT_ACTOR_ADDR

\* C9 as stated: a constructor call by a caller other than the init actor
\* aborts with Forbidden, before any index is created or flushed and before
\* any root is published.
C9_AsStated ==
    [][ForeignConstructor =>
          /\ last'.exit = "USR_FORBIDDEN"
          /\ last'.events = <<>>
          /\ SameState]_vars

\* C9 amended: such a call always aborts before any index is created or
\* flushed and before any root is published; the abort is Forbidden when
\* the parameter blob decodes to an address, and the panic of the decoding
\* otherwise, which precedes the check of the caller.
C9_ForeignConstructorAborts ==
    [][ForeignConstructor =>
          /\ last'.exit = IF WellFormedAddress(last'.params)
                          THEN "USR_FORBIDDEN" ELSE "PANIC"
          /\ last'.events = <<>>
          /\ SameState]_vars

\* a constructor call by another caller was refused over a funded ledger
C9_Witness ==
    /\ last.method = 1
    /\ last.caller # INIT_ACTOR_ADDR
    /\ last.exit = "USR_FORBIDDEN"
    /\ \E k \in AllKeys : Balance(k) > 0

\* C10: after a successful constructor call with address A the published
\* record has trusted_address = A and the root of an empty index: every
\* lookup is 0 and list() is empty.
C10_ConstructorPublishesEmpty ==
    (last.method = 1 /\ last.exit = "OK")
       => /\ Published
          /\ TrustedAuthority = Unwrap(AddressFromBytes(last.params))
          /\ Unwrap(Load).bounties_map = HamtFlush(HamtNew)
          /\ LoadBounties # None
          /\ \A k \in AllKeys : Lookup(k).amount = 0
          /\ List = <<>>

\* the constructor returned, with a trusted address that is not an ID address
C10_Witness ==
    /\ last.method = 1
    /\ last.exit = "OK"
    /\ Published
    /\ TrustedAuthority.protocol = SECP_PROTOCOL

----------------------------------------------------------------------------

\* the key fields a list entry must carry for key bytes k and amount a
EntryOf(k, a) ==
    [piece_cid |-> k[1],
     address |-> [protocol |-> k[2], payload |-> k[3]],
     amount |-> a]

FundedKeys == {k \in AllKeys : Lookup(k).amount > 0}

Amounts == 0..(MaxValue * MaxCalls)

\* C11: list() returns exactly the funded keys, each once, with its amount
\* and its key fields decoded: the entry (key, amount) is in the output iff
\* lookup(key) = amount > 0; a returning list call returns that output.
C11_ListIsFundedKeys ==
    LoadBounties # None =>
       /\ Len(List) = Cardinality(FundedKeys)
       /\ \A k \in AllKeys : \A a \in Amounts :
             (\E i \in DOMAIN List : List[i] = EntryOf(k, a))
                <=> (Lookup(k).amount = a /\ a > 0)
       /\ (last.method = 3 /\ last.exit = "OK") => last.ret = Some(List)

\* list returned two entries with different amounts
C11_Witness ==
    /\ last.method = 3
    /\ last.exit = "OK"
    /\ Len(Unwrap(last.ret)) = 2
    /\ Unwrap(last.ret)[1].amount # Unwrap(last.ret)[2].amount

\* C12: a list or lookup call leaves the root, the trusted authority and
\* every balance unchanged and requests no transfer; lookup of an absent
\* key returns 0.
C12_ReadsAreReadOnly ==
    [][(last'.method \in {3, 4}) =>
          /\ SameState
          /\ Load' = Load
          /\ last'.sends = <<>>
          /\ last'.events = <<>>
          /\ \A k \in AllKeys :
                (/\ last'.method = 4
                 /\ last'.exit = "OK"
                 /\ NamedKey(last'.params) = k
                 /\ k \notin DOMAIN Unwrap(LoadBounties))
                => last'.ret = Some([amount |-> 0])]_vars

\* lookup of an absent key returned 0 beside a funded key
C12_Witness ==
    /\ last.method = 4
    /\ last.exit = "OK"
    /\ last.ret = Some([amount |-> 0])
    /\ \E k \in AllKeys : Balance(k) > 0

\* the effects of the step's call end with the publishing of the root, which
\* follows the put of the record, which follows the flush of the index
SaveIsLast(events) ==
    /\ Len(events) >= 3
    /\ events[Len(events)] = "set_root"
    /\ events[Len(events) - 1] = "state_put"
    /\ events[Len(events) - 2] = "hamt_flush"
    /\ \A i \in 1..(Len(events) - 1) : events[i] # "set_root"

\* C13: in every successful constructor, deposit and award call that
\* writes, publishing the root is the last effect and follows the flush of
\* the index the saved record carries; the send of an award precedes it,
\* and nothing is published by a call without that final save.
C13_SaveIsLast ==
    [][/\ (root' # root \/ blocks' # blocks \/ last'.sends # <<>>)
             => last'.events # <<>>
       /\ (last'.exit = "OK" /\ last'.events # <<>>)
             => /\ last'.method \in {1, 2, 5}
                /\ SaveIsLast(last'.events)
                /\ Published'
                /\ HamtLoad(Unwrap(Load).bounties_map)' # None]_vars

\* an award sent, then flushed, saved and published
C13_Witness ==
    /\ last.method = 5
    /\ last.exit = "OK"
    /\ last.events # <<>>
    /\ last.events[1] = "send"
    /\ last.events[Len(last.events)] = "set_root"

\* the records a call can save: a trusted address and the Cid of a flushed
\* index
TrustedCandidates ==
    {Unwrap(AddressFromBytes(b)) : b \in ConstructorBlobs \ {Malformed}}

RecordCandidates ==
    {[trusted_address |-> a, bounties_map |-> CidOf(b)] :
        a \in TrustedCandidates, b \in {x \in blocks : IsHamtBlock(x)}}

WellFormedFor(method, params) ==
    IF method \in {2, 4} THEN Len(params) = 3
    ELSE IF method = 5 THEN Len(params) = 5
    ELSE TRUE

\* the step is a deposit, list, lookup or award call before any successful
\* constructor call
CallBeforeConstructor ==
    /\ root = None
    /\ last'.method \in {2, 3, 4, 5}

\* C15 as stated: before any successful constructor call, every deposit,
\* list, lookup and award call aborts with IllegalState, with no state
\* change, no transfer and no return payload.
C15_AsStated ==
    [][CallBeforeConstructor =>
          /\ last'.exit = "USR_ILLEGAL_STATE"
          /\ last'.sends = <<>>
          /\ last'.ret = None
          /\ SameState]_vars

\* C15 amended: every such call aborts with no state change, no transfer
\* and no return payload; the abort is IllegalState when the parameter blob
\* decodes, and the panic of the decoding otherwise, which precedes the load.
C15_CallBeforeConstructorAborts ==
    [][CallBeforeConstructor =>
          /\ last'.exit = IF WellFormedFor(last'.method, last'.params)
                          THEN "USR_ILLEGAL_STATE" ELSE "PANIC"
          /\ last'.sends = <<>>
          /\ last'.ret = None
          /\ SameState]_vars

\* an award call aborted at the load
C15_Witness ==
    /\ root = None
    /\ last.method = 5
    /\ last.exit = "USR_ILLEGAL_STATE"

----------------------------------------------------------------------------

\* C16: a deposit of value 0 to an unfunded key writes no entry and makes
\* no flush and no save: root and blocks are those from before the call and
\* the key stays unfunded.
C16_ZeroDepositIsNoOp ==
    [][\A k \in AllKeys :
          (/\ last'.method = 2
           /\ last'.exit = "OK"
           /\ NamedKey(last'.params) = k
           /\ Balance(k) = 0
           /\ deposited'[k] = deposited[k])
          => /\ root' = root
             /\ blocks' = blocks
             /\ Load' = Load
             /\ last'.events = <<>>
             /\ Balance(k)' = 0]_vars

\* a deposit of 0 returned for a key that was funded and awarded before
C16_Witness ==
    /\ last.method = 2
    /\ last.exit = "OK"
    /\ last.events = <<>>
    /\ deposited[NamedKey(last.params)] > 0
    /\ Balance(NamedKey(last.params)) = 0

\* the index that holds the funded keys with their balances, and nothing else
CanonicalEntries == [k \in FundedKeys |-> [amount |-> Lookup(k).amount]]

CanonicalRoot ==
    Some(CidOf(StateBlock([trusted_address |-> TrustedAuthority,
                           bounties_map |-> HamtFlush(CanonicalEntries)])))

\* C17: the published index root and the published root are a function of
\* the trusted authority and of the (key, amount) entries alone, whatever
\* the calls that led there.
C17_RootIsFunctionOfContent ==
    LoadBounties # None =>
       /\ Unwrap(Load).bounties_map = HamtFlush(CanonicalEntries)
       /\ root = CanonicalRoot

\* one key is left funded after a deposit to another key and its award
C17_Witness ==
    /\ last.method = 5
    /\ last.exit = "OK"
    /\ last.sends # <<>>
    /\ Cardinality(FundedKeys) = 1
    /\ root = CanonicalRoot

RECURSIVE SumOf(_, _)
SumOf(f, S) ==
    IF S = {} THEN 0
    ELSE LET k == CHOOSE x \in S : TRUE IN f[k] + SumOf(f, S \ {k})

\* C18 as stated: the balances of the index add up to the value received by
\* successful deposits less the value moved out by the sends of awards.
C18_Conservation ==
    SumOf([k \in AllKeys |-> Balance(k)], AllKeys)
        = SumOf(deposited, AllKeys) - SumOf(paid, AllKeys)

\* C19: deposit, list, lookup and award leave the trusted authority of the
\* published record as it was, and a deposit or award of a key leaves the
\* balance of every other key as it was.
C19_TrustedAndOtherKeysKept ==
    [][(last'.method \in {2, 3, 4, 5} /\ Published) =>
          /\ Published'
          /\ TrustedAuthority' = TrustedAuthority
          /\ \A k \in AllKeys :
                (\/ last'.exit # "OK"
                 \/ last'.method \in {3, 4}
                 \/ NamedKey(last'.params) # k)
                => Balance(k)' = Balance(k)]_vars

\* a deposit wrote one key beside another funded key
C19_Witness ==
    /\ last.method = 2
    /\ last.exit = "OK"
    /\ last.events # <<>>
    /\ Cardinality(FundedKeys) = 2

\* C20 as stated: whenever a key is funded there is a caller whose ID
\* address is the stored trusted authority, who can pass the check of award
\* and drain the key.
C20_FundedIsPayable ==
    \A k \in AllKeys :
        Balance(k) > 0 =>
            \E c \in Callers \cup {TrustedAuthority.payload} :
                TrustedAuthority = NewId(c)

====
